---- MODULE Spec2Model ----
(***************************************************************************)
(* Request-lifecycle tracing layer of claude-code-router.                  *)
(*                                                                         *)
(*   RequestLogger   (src/src/utils/requestLogger.ts)   the Record Store,  *)
(*                   the Sanitizer and the Persistence Writer              *)
(*   HTTPInterceptor (src/src/utils/httpInterceptor.ts) the Outbound Call  *)
(*                   Interceptor and the Correlation Context               *)
(*   run()           (src/unnamed/part_002)             the preHandler and *)
(*                   onSend hooks that drive both                          *)
(*   createServer    (src/src/server.ts)                the Query API      *)
(*                                                                         *)
(* The specifications share the variables:                                 *)
(*   StoreSpec  any sequence of calls of the exported requestLogger        *)
(*              methods (its callers router.ts etc. are not part of the    *)
(*              sources at hand, so every call sequence is admitted);      *)
(*   Spec       NumRequests inbound /v1/messages requests served           *)
(*              concurrently by the hooks, with the outbound calls they    *)
(*              cause going through the interceptor;                       *)
(*   CallSpec   one inbound request, whose handling may throw, and one     *)
(*              outbound call, with every form of the arguments of         *)
(*              http(s).request and every chunking of the body texts;      *)
(*   QuerySpec  records created while the routes of the Query API are      *)
(*              called;                                                    *)
(*   SanSpec    the sanitizer applied to headers and bodies;               *)
(*   UrlSpec    the classification of the destination of an outbound call. *)
(***************************************************************************)
EXTENDS Integers, Sequences, FiniteSets, TLC

VARIABLES
    logs,              \* RequestLogger.logs: the Map, as the sequence of its
                       \* entries in insertion order
    file,              \* requests.jsonl: the lines appended so far
    REQUEST_LOG,       \* process.env.REQUEST_LOG
    now,               \* the clock read by new Date() / Date.now()
    currentRequestId,  \* (global as any).currentRequestId
    pc,                \* per inbound request: how far its hooks have run
    calls,             \* the outbound calls issued through http(s).request
    last               \* observer: the call made last (of a requestLogger
                       \* method, a route, the sanitizer) with what it was
                       \* given and what it answered, how many calls
                       \* StoreSpec made, the ids the call evicted

vars == <<logs, file, REQUEST_LOG, now, currentRequestId, pc, calls, last>>

----------------------------------------------------------------------------
(* Bounds of the model *)

\* RequestLogger.maxLogs is 1000 in the source (requestLogger.ts:59); the
\* model runs the same cleanup() with a scaled capacity.
maxLogs == 2

\* Inbound requests served concurrently by the hooks (Spec).
NumRequests == 2

\* Outbound calls issued in one run of Spec.
MaxCalls == 1

\* Largest clock value.
MaxTime == 1

\* Calls of requestLogger methods and changes of the environment switch in
\* one run of StoreSpec.
MaxOps == 4

----------------------------------------------------------------------------
(* Values *)

\* JavaScript undefined, as the value of an unset id
undefined == "undefined"

\* An optional stage of RequestLogEntry that has not been written
Absent == [set |-> FALSE]

\* Ids given to records.  Request r of Spec carries RequestIds[r].
AllIds == <<"a", "b", "c", "d", "e">>

\* ids the callers of StoreSpec pass: one more than the store can hold
StoreIds == {AllIds[i] : i \in 1..(maxLogs + 1)}

\* ids of the inbound requests of Spec
RequestIds == [r \in 1..NumRequests |-> AllIds[r]]

Truthy(v) == v # "" /\ v # undefined

----------------------------------------------------------------------------
(* Sanitizer: requestLogger.ts:167-199 *)

REDACTED == "[REDACTED]"

\* sanitizeHeaders: a copy of the headers in which the own properties
\* `authorization` and `x-api-key` are replaced when their value is truthy.
\* Headers are functions from header keys to values.
sanitizeHeaders(headers) ==
    [k \in DOMAIN headers |->
        IF k \in {"authorization", "x-api-key"} /\ Truthy(headers[k])
        THEN REDACTED
        ELSE headers[k]]

\* Size threshold of sanitizeBody
BodyLimit == 1000

\* Length of '... [TRUNCATED]'
TruncMarkLen == 15

\* A body is null, a string, an object or a number.  A string is the first
\* `keep` characters of a rendering of `val` (form "text": val is the text
\* itself; "pretty": JSON.stringify(val, null, 2)) followed by `tail`
\* characters of truncation marker.  An object is named by val, `keep` is
\* the length of its JSON.stringify (ok = FALSE: JSON.stringify throws).
NullBody ==
    [kind |-> "null", val |-> "null", form |-> "", keep |-> 0, tail |-> 0,
     ok |-> TRUE]

StringBody(n, v) ==
    [kind |-> "string", val |-> v, form |-> "text", keep |-> n, tail |-> 0,
     ok |-> TRUE]

ObjectBody(n, v) ==
    [kind |-> "object", val |-> v, form |-> "compact", keep |-> n, tail |-> 0,
     ok |-> TRUE]

\* An object JSON.stringify throws on (a circular structure, a BigInt)
CircularBody(v) ==
    [kind |-> "object", val |-> v, form |-> "compact", keep |-> 0, tail |-> 0,
     ok |-> FALSE]

NumberBody(v) ==
    [kind |-> "number", val |-> v, form |-> "", keep |-> 0, tail |-> 0,
     ok |-> TRUE]

\* body.length of a string
Length(body) == body.keep + body.tail

\* body.substring(0, n) of a string
Substring(body, n) ==
    IF n >= Length(body) THEN body
    ELSE IF n <= body.keep THEN [body EXCEPT !.keep = n, !.tail = 0]
    ELSE [body EXCEPT !.tail = n - body.keep]

\* JSON.stringify(body, null, 2) of an object: the indentation only adds
\* characters to the compact text
PrettyText(body) ==
    [kind |-> "string", val |-> body.val, form |-> "pretty",
     keep |-> IF body.keep <= 2 THEN body.keep ELSE body.keep + 5,
     tail |-> 0, ok |-> TRUE]

\* text.substring(0, 1000) + '... [TRUNCATED]'
Truncated(text) ==
    [Substring(text, BodyLimit) EXCEPT !.tail = @ + TruncMarkLen]

\* '[UNPARSEABLE OBJECT]'
Unparseable == StringBody(20, "[UNPARSEABLE OBJECT]")

\* The size test that also cuts a text of exactly the limit
OverLimitInclusive(n) == n >= BodyLimit

\* The size test with a limit below the length that is kept
OverLimitLow(n) == n > BodyLimit - 100

\* length > 1000
OverLimit(n) == n > BodyLimit

sanitizeBody(body) ==
    IF body.kind = "null" \/ (body.kind = "string" /\ Length(body) = 0)
    THEN body
    ELSE IF body.kind = "string" /\ OverLimit(Length(body))
    THEN Truncated(body)
    ELSE IF body.kind = "object"
    THEN IF ~body.ok
         THEN Unparseable
         ELSE IF OverLimit(body.keep)
         THEN Truncated(PrettyText(body))
         ELSE body
    ELSE body

----------------------------------------------------------------------------
(* Record Store: the Map and cleanup(), requestLogger.ts:58-59, 210-230 *)

Ids(l) == {l[i].id : i \in 1..Len(l)}

\* Map.has
Has(id) == id \in Ids(logs)

\* Map.get on a key that is present (getLogById)
getLogById(id) == logs[CHOOSE i \in 1..Len(logs) : logs[i].id = id]

\* Map.set: a present key keeps its place and gets the new value, a new key
\* goes last
MapSet(l, entry) ==
    IF entry.id \in Ids(l)
    THEN [i \in 1..Len(l) |-> IF l[i].id = entry.id THEN entry ELSE l[i]]
    ELSE Append(l, entry)

\* One step of the stable sort: e goes after every element whose timestamp
\* is not larger than its own
RECURSIVE InsertByTimestamp(_, _)
InsertByTimestamp(sorted, e) ==
    IF sorted = <<>> THEN <<e>>
    ELSE IF sorted[Len(sorted)].timestamp <= e.timestamp
    THEN Append(sorted, e)
    ELSE Append(InsertByTimestamp(SubSeq(sorted, 1, Len(sorted) - 1), e),
                sorted[Len(sorted)])

\* entries.sort((a, b) => a[1].timestamp.localeCompare(b[1].timestamp));
\* Array.prototype.sort is stable
RECURSIVE SortByTimestamp(_)
SortByTimestamp(entries) ==
    IF entries = <<>> THEN <<>>
    ELSE InsertByTimestamp(
            SortByTimestamp(SubSeq(entries, 1, Len(entries) - 1)),
            entries[Len(entries)])

\* toDelete without the sort: the entries inserted first are deleted
toDeleteOldestInserted(l) ==
    IF Len(l) > maxLogs
    THEN {l[i].id : i \in 1..(Len(l) - maxLogs)}
    ELSE {}

\* toDelete with a sort that puts, among equal timestamps, the entry
\* inserted last first
toDeleteLatestTie(l) ==
    IF Len(l) > maxLogs
    THEN LET reversed == [i \in 1..Len(l) |-> l[Len(l) + 1 - i]]
             sorted == SortByTimestamp(reversed)
         IN {sorted[i].id : i \in 1..(Len(l) - maxLogs)}
    ELSE {}

\* toDelete that takes the entries from the end of the sorted array
toDeleteNewest(l) ==
    IF Len(l) > maxLogs
    THEN LET sorted == SortByTimestamp(l)
         IN {sorted[i].id : i \in (maxLogs + 1)..Len(l)}
    ELSE {}

\* ids cleanup() deletes from the map l
toDelete(l) ==
    IF Len(l) > maxLogs
    THEN LET sorted == SortByTimestamp(l)
         IN {sorted[i].id : i \in 1..(Len(l) - maxLogs)}
    ELSE {}

\* cleanup that keeps one entry too many
cleanupLate(l) ==
    IF Len(l) > maxLogs + 1
    THEN SelectSeq(l, LAMBDA e : e.id \notin toDelete(SubSeq(l, 1, Len(l) - 1)))
    ELSE l

cleanup(l) == SelectSeq(l, LAMBDA e : e.id \notin toDelete(l))

\* The map after `entry.x = ...` on the object it holds under id: that
\* entry becomes newEntry, in place
Update(id, newEntry) ==
    [i \in 1..Len(logs) |-> IF logs[i].id = id THEN newEntry ELSE logs[i]]

----------------------------------------------------------------------------
(* Persistence Writer: requestLogger.ts:201-208 *)

\* appendFileSync either appends the line or throws; the error is caught
\* and reported on the console.
writeToFile(entry, ioOk) == IF ioOk THEN Append(file, entry) ELSE file

\* writeToFile without the try: the error of appendFileSync reaches the
\* caller
writeToFileThrowsUncaught(ioOk) == ~ioOk

\* writeToFile throws to its caller: never, appendFileSync is inside a try
\* whose catch reports on the console
writeToFileThrows(ioOk) == FALSE

----------------------------------------------------------------------------
(* Record Store: the logging methods, requestLogger.ts:65-165.  Each gives *)
(* the Map after the call.                                                 *)

DefaultRouting == [tokenCount |-> 0, selectedModel |-> "", routingReason |-> ""]

NewEntry(id, req) ==
    [id |-> id,
     timestamp |-> now,
     method |-> req.method,
     url |-> req.url,
     originalRequest |-> [headers |-> sanitizeHeaders(req.headers),
                          body |-> sanitizeBody(req.body)],
     routing |-> DefaultRouting,
     transformedRequest |-> Absent,
     providerResponse |-> Absent,
     response |-> Absent,
     error |-> Absent]

logRequest(id, req) ==
    IF REQUEST_LOG = "false" THEN logs
    ELSE cleanup(MapSet(logs, NewEntry(id, req)))

\* logRouting that inserts an entry for an id the map does not hold
logRoutingUpsert(id, tokenCount, selectedModel, reason) ==
    IF REQUEST_LOG = "false" THEN logs
    ELSE IF Has(id)
    THEN Update(id, [getLogById(id) EXCEPT !.routing =
                        [tokenCount |-> tokenCount,
                         selectedModel |-> selectedModel,
                         routingReason |-> reason]])
    ELSE Append(logs, [id |-> id, timestamp |-> now, method |-> "",
                       url |-> "",
                       originalRequest |-> [headers |-> <<>>, body |-> NullBody],
                       routing |-> [tokenCount |-> tokenCount,
                                    selectedModel |-> selectedModel,
                                    routingReason |-> reason],
                       transformedRequest |-> Absent,
                       providerResponse |-> Absent,
                       response |-> Absent,
                       error |-> Absent])

logRouting(id, tokenCount, selectedModel, reason) ==
    IF REQUEST_LOG = "false" THEN logs
    ELSE IF Has(id)
    THEN Update(id, [getLogById(id) EXCEPT !.routing =
                        [tokenCount |-> tokenCount,
                         selectedModel |-> selectedModel,
                         routingReason |-> reason]])
    ELSE logs

\* logTransformedRequest that leaves an entry alone once it has its
\* response or its error
logTransformedRequestUnlessCompleted(id, url, method, headers, body, provider, src) ==
    IF REQUEST_LOG = "false" THEN logs
    ELSE IF Has(id) /\ ~getLogById(id).response.set /\ ~getLogById(id).error.set
    THEN Update(id, [getLogById(id) EXCEPT !.transformedRequest =
                        [set |-> TRUE,
                         url |-> url,
                         method |-> method,
                         headers |-> sanitizeHeaders(headers),
                         body |-> sanitizeBody(body),
                         provider |-> provider,
                         src |-> src]])
    ELSE logs

\* `src` names the outbound call the stage was captured from (0: none); it
\* is not a field of the entry, it records where url/headers/body came
\* from.
logTransformedRequest(id, url, method, headers, body, provider, src) ==
    IF REQUEST_LOG = "false" THEN logs
    ELSE IF Has(id)
    THEN Update(id, [getLogById(id) EXCEPT !.transformedRequest =
                        [set |-> TRUE,
                         url |-> url,
                         method |-> method,
                         headers |-> sanitizeHeaders(headers),
                         body |-> sanitizeBody(body),
                         provider |-> provider,
                         src |-> src]])
    ELSE logs

logProviderResponse(id, status, headers, body, startTime, src) ==
    IF REQUEST_LOG = "false" THEN logs
    ELSE IF Has(id)
    THEN Update(id, [getLogById(id) EXCEPT !.providerResponse =
                        [set |-> TRUE,
                         status |-> status,
                         headers |-> sanitizeHeaders(headers),
                         body |-> sanitizeBody(body),
                         duration |-> now - startTime,
                         src |-> src]])
    ELSE logs

\* logResponse that returns at once when REQUEST_LOG is "false", as the
\* other stage writes do
logResponseGated(id, status, headers, body, startTime) ==
    IF REQUEST_LOG = "false" THEN logs
    ELSE IF Has(id)
    THEN Update(id, [getLogById(id) EXCEPT !.response =
                        [set |-> TRUE,
                         status |-> status,
                         headers |-> sanitizeHeaders(headers),
                         body |-> sanitizeBody(body),
                         duration |-> now - startTime]])
    ELSE logs

logResponse(id, status, headers, body, startTime) ==
    IF Has(id)
    THEN Update(id, [getLogById(id) EXCEPT !.response =
                        [set |-> TRUE,
                         status |-> status,
                         headers |-> sanitizeHeaders(headers),
                         body |-> sanitizeBody(body),
                         duration |-> now - startTime]])
    ELSE logs

logError(id, error) ==
    IF Has(id)
    THEN Update(id, [getLogById(id) EXCEPT !.error =
                        [set |-> TRUE,
                         message |-> error.message,
                         stack |-> error.stack]])
    ELSE logs

\* writeToFile called with the entry as it was before the stage was written
PersistedStale(newLogs, id) == getLogById(id)

\* The line logResponse / logError hand to writeToFile: the entry as it is
\* after the stage was written.  Only called when the entry exists.
Persisted(newLogs, id) ==
    newLogs[CHOOSE i \in 1..Len(newLogs) : newLogs[i].id = id]

\* requests.jsonl after logResponse / logError on id left the map as newLogs
fileAfter(newLogs, id, ioOk) ==
    IF Has(id) THEN writeToFile(Persisted(newLogs, id), ioOk) ELSE file

----------------------------------------------------------------------------
(* Inputs *)

\* An inbound POST /v1/messages whose body is the object named v
InboundReq(v) ==
    [method |-> "POST",
     url |-> "/v1/messages",
     headers |-> [authorization |-> "Bearer secret", accept |-> "*/*"],
     body |-> ObjectBody(13, v)]

\* Headers of the reply and of the provider's response
ReplyHeaders == [accept |-> "*/*"]

\* Headers the proxy puts on an outbound call
OutboundHeaders == [authorization |-> "Bearer provider-key", accept |-> "*/*"]

----------------------------------------------------------------------------
(* Initial state: what the constructors leave, requestLogger.ts:58,       *)
(* httpInterceptor.ts:19; no id is armed                                   *)

NoCall ==
    [state |-> "free", owner |-> 0, requestId |-> undefined, provider |-> "",
     startTime |-> 0]

InitCommon ==
    /\ logs = <<>>
    /\ file = <<>>
    /\ now = 0
    /\ currentRequestId = undefined
    /\ pc = [r \in 1..NumRequests |->
                [at |-> "idle", startTime |-> 0, threw |-> FALSE]]
    /\ calls = [c \in 1..MaxCalls |-> NoCall]
    /\ last = [op |-> "init", id |-> undefined, n |-> 0, evicted |-> {}]

\* The clock advances
Tick ==
    /\ now < MaxTime
    /\ now' = now + 1
    /\ last' = [op |-> "tick", id |-> undefined, n |-> last.n, evicted |-> {}]
    /\ UNCHANGED <<logs, file, REQUEST_LOG, currentRequestId, pc, calls>>

----------------------------------------------------------------------------
(* StoreSpec: the exported requestLogger called by any caller              *)

StoreInit == InitCommon /\ REQUEST_LOG \in {"true", "false"}

\* The environment switch is changed
SetRequestLog ==
    /\ last.n < MaxOps
    /\ REQUEST_LOG' = IF REQUEST_LOG = "false" THEN "true" ELSE "false"
    /\ last' = [op |-> "setenv", id |-> undefined, n |-> last.n + 1, evicted |-> {}]
    /\ UNCHANGED <<logs, file, now, currentRequestId, pc, calls>>

CallLogRequest(id, req) ==
    /\ last.n < MaxOps
    /\ logs' = logRequest(id, req)
    /\ last' = [op |-> "logRequest", id |-> id, n |-> last.n + 1,
                evicted |-> (Ids(logs) \cup {id}) \ Ids(logs')]
    /\ UNCHANGED <<file, REQUEST_LOG, now, currentRequestId, pc, calls>>

CallLogRouting(id) ==
    /\ last.n < MaxOps
    /\ logs' = logRouting(id, 42, "claude-3", "default")
    /\ last' = [op |-> "logRouting", id |-> id, n |-> last.n + 1, evicted |-> {}]
    /\ UNCHANGED <<file, REQUEST_LOG, now, currentRequestId, pc, calls>>

CallLogTransformedRequest(id) ==
    /\ last.n < MaxOps
    /\ logs' = logTransformedRequest(id, "https://api.anthropic.com/v1/messages",
                    "POST", OutboundHeaders, ObjectBody(30, "t"), "anthropic", 0)
    /\ last' = [op |-> "logTransformedRequest", id |-> id, n |-> last.n + 1, evicted |-> {}]
    /\ UNCHANGED <<file, REQUEST_LOG, now, currentRequestId, pc, calls>>

CallLogProviderResponse(id, startTime) ==
    /\ last.n < MaxOps
    /\ logs' = logProviderResponse(id, 200, ReplyHeaders, ObjectBody(11, "p"),
                                   startTime, 0)
    /\ last' = [op |-> "logProviderResponse", id |-> id, n |-> last.n + 1, evicted |-> {}]
    /\ UNCHANGED <<file, REQUEST_LOG, now, currentRequestId, pc, calls>>

CallLogResponse(id, startTime, ioOk) ==
    /\ last.n < MaxOps
    /\ logs' = logResponse(id, 200, ReplyHeaders, ObjectBody(11, "r"), startTime)
    /\ file' = fileAfter(logs', id, ioOk)
    /\ last' = [op |-> "logResponse", id |-> id, n |-> last.n + 1,
                evicted |-> {}, ioOk |-> ioOk,
                threw |-> Has(id) /\ writeToFileThrows(ioOk)]
    /\ UNCHANGED <<REQUEST_LOG, now, currentRequestId, pc, calls>>

CallLogError(id, ioOk) ==
    /\ last.n < MaxOps
    /\ logs' = logError(id, [message |-> "boom", stack |-> "Error: boom"])
    /\ file' = fileAfter(logs', id, ioOk)
    /\ last' = [op |-> "logError", id |-> id, n |-> last.n + 1,
                evicted |-> {}, ioOk |-> ioOk,
                threw |-> Has(id) /\ writeToFileThrows(ioOk)]
    /\ UNCHANGED <<REQUEST_LOG, now, currentRequestId, pc, calls>>

\* writeToFile runs only for an entry that exists; there the append succeeds
\* or fails
IoOutcomes(id) == IF Has(id) THEN BOOLEAN ELSE {TRUE}

StoreNext ==
    \/ Tick
    \/ SetRequestLog
    \/ \E id \in StoreIds : CallLogRequest(id, InboundReq("x"))
    \/ \E id \in StoreIds : CallLogRouting(id)
    \/ \E id \in StoreIds : CallLogTransformedRequest(id)
    \/ \E id \in StoreIds : CallLogProviderResponse(id, now)
    \/ \E id \in StoreIds : \E ioOk \in IoOutcomes(id) : CallLogResponse(id, now, ioOk)
    \/ \E id \in StoreIds : \E ioOk \in IoOutcomes(id) : CallLogError(id, ioOk)

StoreSpec == StoreInit /\ [][StoreNext]_vars

----------------------------------------------------------------------------
(* Query API: requestLogger.ts:221-230 and the routes GET /api/logs,       *)
(* GET /api/logs/:id of server.ts:40-72                                    *)

\* One step of the stable sort by descending timestamp: e goes after every
\* element whose timestamp is not smaller than its own
RECURSIVE InsertByTimestampDesc(_, _)
InsertByTimestampDesc(sorted, e) ==
    IF sorted = <<>> THEN <<e>>
    ELSE IF sorted[Len(sorted)].timestamp >= e.timestamp
    THEN Append(sorted, e)
    ELSE Append(InsertByTimestampDesc(SubSeq(sorted, 1, Len(sorted) - 1), e),
                sorted[Len(sorted)])

\* Array.from(this.logs.values())
\*     .sort((a, b) => b.timestamp.localeCompare(a.timestamp))
RECURSIVE SortByTimestampDesc(_)
SortByTimestampDesc(entries) ==
    IF entries = <<>> THEN <<>>
    ELSE InsertByTimestampDesc(
            SortByTimestampDesc(SubSeq(entries, 1, Len(entries) - 1)),
            entries[Len(entries)])

\* Array.prototype.slice(0, end): a negative end counts from the end of
\* the array
Slice(array, end) ==
    LET k == IF end < 0
             THEN (IF Len(array) + end < 0 THEN 0 ELSE Len(array) + end)
             ELSE (IF end > Len(array) THEN Len(array) ELSE end)
    IN SubSeq(array, 1, k)

\* The answer of getRecentLogs when the map is `map`
Recent(map, limit) == Slice(SortByTimestampDesc(map), limit)

\* getRecentLogs: requestLogger.ts:221-226
getRecentLogs(limit) == Recent(logs, limit)

\* Default of the limit
DefaultLimit == 100

Digits == <<"0", "1", "2", "3", "4", "5", "6", "7", "8", "9">>

IsDigit(a) == \E d \in 1..10 : Digits[d] = a

DigitValue(a) == (CHOOSE d \in 1..10 : Digits[d] = a) - 1

\* The number written by the digits text starts with, read after acc
RECURSIVE LeadingNumber(_, _)
LeadingNumber(text, acc) ==
    IF text = <<>> \/ ~IsDigit(text[1]) THEN acc
    ELSE LeadingNumber(Tail(text), 10 * acc + DigitValue(text[1]))

\* parseInt(text): an optional sign and the digits that follow it; NaN
\* when there is none (also for a limit that is not given)
parseInt(text) ==
    LET signed == text # <<>> /\ text[1] \in {"-", "+"}
        digits == IF signed THEN Tail(text) ELSE text
    IN IF digits = <<>> \/ ~IsDigit(digits[1]) THEN [nan |-> TRUE, val |-> 0]
       ELSE [nan |-> FALSE,
             val |-> IF signed /\ text[1] = "-"
                     THEN 0 - LeadingNumber(digits, 0)
                     ELSE LeadingNumber(digits, 0)]

\* parseInt(query.limit) || 100: server.ts:49
QueryLimit(text) ==
    IF parseInt(text).nan \/ parseInt(text).val = 0 THEN DefaultLimit
    ELSE parseInt(text).val

\* The access level taken to be undefined when none was given
AccessLevelNoDefault(given) == given

\* (req as any).accessLevel || "restricted": server.ts:42,57
AccessLevel(given) == IF Truthy(given) THEN given ELSE "restricted"

\* What a route answered: the status, the text sent with an error status,
\* the records returned, whether requestLogger was called, and with which
\* limit
Reply(op, access, id, limit, status, send, records, read) ==
    [op |-> op, id |-> id, n |-> last.n, evicted |-> {},
     access |-> access, limit |-> limit, status |-> status, send |-> send,
     logs |-> records, read |-> read]

\* GET /api/logs?limit=text: server.ts:40-53
GetApiLogs(access, text) ==
    /\ last' =
        IF AccessLevel(access) = "restricted"
        THEN Reply("GET /api/logs", access, undefined, 0, 401,
                   "API key required to access logs", <<>>, FALSE)
        ELSE Reply("GET /api/logs", access, undefined, QueryLimit(text), 200,
                   "", getRecentLogs(QueryLimit(text)), TRUE)
    /\ UNCHANGED <<logs, file, REQUEST_LOG, now, currentRequestId, pc, calls>>

\* GET /api/logs/:id: server.ts:55-72
GetApiLog(access, id) ==
    /\ last' =
        IF AccessLevel(access) = "restricted"
        THEN Reply("GET /api/logs/:id", access, id, 0, 401,
                   "API key required to access logs", <<>>, FALSE)
        ELSE IF ~Has(id)
        THEN Reply("GET /api/logs/:id", access, id, 0, 404,
                   "Log not found", <<>>, TRUE)
        ELSE Reply("GET /api/logs/:id", access, id, 0, 200,
                   "", <<getLogById(id)>>, TRUE)
    /\ UNCHANGED <<logs, file, REQUEST_LOG, now, currentRequestId, pc, calls>>

\* Access levels on a request: none, empty, restricted, full
AccessLevels == {undefined, "", "restricted", "full"}

\* Values of the limit parameter of the query; <<>>: not given
LimitTexts ==
    {<<>>, <<"0">>, <<"1">>, <<"2">>, <<"1", "0">>, <<"-", "1">>,
     <<"-", "5">>, <<"a">>, <<"2", "x">>}

\* QuerySpec: records are created while the Query API is called
QueryInit == InitCommon /\ REQUEST_LOG = "true"

QueryNext ==
    \/ Tick
    \/ \E id \in StoreIds : CallLogRequest(id, InboundReq("x"))
    \/ \E access \in AccessLevels : \E text \in LimitTexts :
            GetApiLogs(access, text)
    \/ \E access \in AccessLevels : \E id \in StoreIds : GetApiLog(access, id)

QuerySpec == QueryInit /\ [][QueryNext]_vars

----------------------------------------------------------------------------
(* SanSpec: the sanitizer applied to headers and bodies of every form      *)

HeaderKeys == {"authorization", "Authorization", "x-api-key", "X-API-Key", "accept"}

\* Header objects: any of the keys, each with an empty or a non-empty value
HeaderInputs == UNION {[keys -> {"", "secret"}] : keys \in SUBSET HeaderKeys}

\* Bodies around the size threshold
BodyInputs ==
    {NullBody, NumberBody("7"), CircularBody("o")}
        \cup {StringBody(n, "s") : n \in {0, 1, 999, 1000, 1001, 1015, 3000}}
        \cup {ObjectBody(n, "o") : n \in {2, 999, 1000, 1001, 3000}}

\* What a call of the sanitizer was given and what it returned
Sanitized(op, input, output, again) ==
    [op |-> op, id |-> undefined, n |-> 0, evicted |-> {},
     input |-> input, output |-> output, again |-> again]

SanitizeHeaders(headers) ==
    /\ last' = Sanitized("sanitizeHeaders", headers, sanitizeHeaders(headers),
                         FALSE)
    /\ UNCHANGED <<logs, file, REQUEST_LOG, now, currentRequestId, pc, calls>>

SanitizeBody(body) ==
    /\ last' = Sanitized("sanitizeBody", body, sanitizeBody(body), FALSE)
    /\ UNCHANGED <<logs, file, REQUEST_LOG, now, currentRequestId, pc, calls>>

\* The body sanitizeBody returned is given to it again
SanitizeBodyAgain ==
    /\ last.op = "sanitizeBody"
    /\ ~last.again
    /\ last' = Sanitized("sanitizeBody", last.output, sanitizeBody(last.output),
                         TRUE)
    /\ UNCHANGED <<logs, file, REQUEST_LOG, now, currentRequestId, pc, calls>>

SanNext ==
    \/ \E headers \in HeaderInputs : SanitizeHeaders(headers)
    \/ \E body \in BodyInputs : SanitizeBody(body)
    \/ SanitizeBodyAgain

SanSpec == QueryInit /\ [][SanNext]_vars

----------------------------------------------------------------------------
(* Correlation Context: httpInterceptor.ts:203-216 *)

getCurrentRequestId == currentRequestId

setCurrentRequestId(id) == id

clearCurrentRequestId == undefined

----------------------------------------------------------------------------
(* Outbound Call Interceptor: httpInterceptor.ts:50-201.                   *)
(* A text (a URL, a body) is a sequence of atoms, each atom a piece of     *)
(* the text; concatenation of texts is \o.  A chunk of a body is a         *)
(* sequence of bytes, as a Buffer holds them; a chunk that is a string is  *)
(* the sequence of the bytes of its characters.                            *)

\* Most chunks of the body of a request or of a response (CallSpec)
MaxChunks == 2

\* providerDomains of isProviderRequest
providerDomains ==
    {"api.openai.com", "openrouter.ai", "api.deepseek.com",
     "generativelanguage.googleapis.com", "api.anthropic.com", "httpbin.org"}

\* Arguments of http(s).request: a URL string, an options object, a
\* function.  An absent property is the empty text or the empty string.
UrlString(href) == [type |-> "string", href |-> href]

Options(hostname, host, port, path) ==
    [type |-> "object", hostname |-> hostname, host |-> host, port |-> port,
     path |-> path, method |-> "POST",
     headers |-> OutboundHeaders]

Function(name) == [type |-> "function", name |-> name]

Undefined == [type |-> "undefined"]

\* parseUrl: httpInterceptor.ts:153-164
parseUrl(options, isHttps) ==
    IF options.type = "string" THEN options.href
    ELSE LET protocol == IF isHttps THEN "https:" ELSE "http:"
             hostname == IF options.hostname # <<>> THEN options.hostname
                         ELSE IF options.host # <<>> THEN options.host
                         ELSE <<"localhost">>
             port == IF options.port # <<>> THEN <<":">> \o options.port
                     ELSE <<>>
             path == IF options.path # <<>> THEN options.path ELSE <<"/">>
         IN <<protocol, "//">> \o hostname \o port \o path

\* Index of the first atom of text that is in stops, Len(text) + 1 if none
FirstOf(text, stops) ==
    IF \E i \in 1..Len(text) : text[i] \in stops
    THEN CHOOSE i \in 1..Len(text) :
            text[i] \in stops /\ \A j \in 1..(i - 1) : text[j] \notin stops
    ELSE Len(text) + 1

\* Index of the last "@" of text, 0 if none
LastAt(text) ==
    IF \E i \in 1..Len(text) : text[i] = "@"
    THEN CHOOSE i \in 1..Len(text) :
            text[i] = "@" /\ \A j \in (i + 1)..Len(text) : text[j] # "@"
    ELSE 0

\* The host part new URL(url) finds: what follows "scheme://" up to the
\* path, query or fragment, without userinfo and port
UrlHost(url) ==
    LET rest == SubSeq(url, 3, Len(url))
        authority == SubSeq(rest, 1, FirstOf(rest, {"/", "?", "#"}) - 1)
        hostport == SubSeq(authority, LastAt(authority) + 1, Len(authority))
    IN SubSeq(hostport, 1, FirstOf(hostport, {":"}) - 1)

\* Atoms that are texts of digits
PortAtoms == {"80", "443", "8080"}

\* The port part new URL(url) finds: what follows the host in the authority
UrlPort(url) ==
    LET rest == SubSeq(url, 3, Len(url))
        authority == SubSeq(rest, 1, FirstOf(rest, {"/", "?", "#"}) - 1)
        hostport == SubSeq(authority, LastAt(authority) + 1, Len(authority))
    IN SubSeq(hostport, FirstOf(hostport, {":"}) + 1, Len(hostport))

\* new URL(url) does not throw
UrlValid(url) ==
    /\ Len(url) >= 3
    /\ url[1] \in {"http:", "https:"}
    /\ url[2] = "//"
    /\ UrlHost(url) # <<>>
    /\ \A i \in 1..Len(UrlPort(url)) : UrlPort(url)[i] \in PortAtoms

\* Lower case of an atom of a host name
LowerAtom(a) ==
    CASE a = "API.ANTHROPIC.COM" -> "api.anthropic.com"
      [] a = "EXAMPLE.COM" -> "example.com"
      [] OTHER -> a

\* hostname taken to be the whole text of the URL
UrlHostnameWhole(url) == [i \in 1..Len(url) |-> LowerAtom(url[i])]

\* new URL(url).hostname: the host in lower case
UrlHostname(url) == [i \in 1..Len(UrlHost(url)) |-> LowerAtom(UrlHost(url)[i])]

\* hostname.includes(domain); an allow-list entry is one atom
Includes(hostname, domain) == \E i \in 1..Len(hostname) : hostname[i] = domain

\* isProviderRequest: httpInterceptor.ts:166-183
isProviderRequest(url) ==
    IF UrlValid(url)
    THEN \E domain \in providerDomains : Includes(UrlHostname(url), domain)
    ELSE FALSE

\* extractProvider: httpInterceptor.ts:185-201
extractProvider(url) ==
    IF UrlValid(url)
    THEN LET hostname == UrlHostname(url)
         IN IF Includes(hostname, "openrouter.ai") THEN "openrouter"
            ELSE IF Includes(hostname, "api.deepseek.com") THEN "deepseek"
            ELSE IF Includes(hostname, "api.openai.com") THEN "openai"
            ELSE IF Includes(hostname, "generativelanguage.googleapis.com")
            THEN "gemini"
            ELSE IF Includes(hostname, "api.anthropic.com") THEN "anthropic"
            ELSE IF Includes(hostname, "httpbin.org") THEN "test"
            ELSE hostname
    ELSE "unknown"

\* chunk.toString(): the bytes decoded as UTF-8.  The bytes "{", "}", "1"
\* and "quote" are characters of their own, "C3" followed by "A9" is the
\* character "e-acute", and a "C3" or an "A9" on its own decodes to the
\* replacement character "U+FFFD".
RECURSIVE ChunkToString(_)
ChunkToString(chunk) ==
    IF chunk = <<>> THEN <<>>
    ELSE IF Len(chunk) >= 2 /\ chunk[1] = "C3" /\ chunk[2] = "A9"
    THEN <<"e-acute">> \o ChunkToString(SubSeq(chunk, 3, Len(chunk)))
    ELSE IF chunk[1] \in {"C3", "A9"}
    THEN <<"U+FFFD">> \o ChunkToString(Tail(chunk))
    ELSE <<chunk[1]>> \o ChunkToString(Tail(chunk))

\* JSON texts over these characters: a number, the empty object, or a
\* string between quotes
JsonValid(text) ==
    /\ text # <<>>
    /\ \/ \A i \in 1..Len(text) : text[i] = "1"
       \/ text = <<"{", "}">>
       \/ /\ Len(text) >= 2
          /\ text[1] = "quote"
          /\ text[Len(text)] = "quote"
          /\ \A i \in 2..(Len(text) - 1) : text[i] # "quote"

\* JSON.parse of a valid text
JsonParse(text) ==
    IF text = <<"{", "}">> THEN ObjectBody(2, text)
    ELSE IF text[1] = "quote"
    THEN StringBody(Len(text) - 2, SubSeq(text, 2, Len(text) - 1))
    ELSE NumberBody(text)

\* createInterceptor that never takes the armed id into interceptedReq
IssuedRequestIdUnset == undefined

\* The id createInterceptor stores in interceptedReq when the call is
\* issued: httpInterceptor.ts:71-75
IssuedRequestId ==
    IF Truthy(getCurrentRequestId) THEN getCurrentRequestId ELSE undefined

\* First unused slot of calls
FreeCall == CHOOSE c \in 1..MaxCalls :
                /\ calls[c].state = "free"
                /\ \A d \in 1..MaxCalls : calls[d].state = "free" => c <= d

\* What the interceptor hands to the original request function when the
\* call is not to a provider: its two parameters, httpInterceptor.ts:51,59
PassedOn(args) ==
    IF Len(args) >= 2 THEN <<args[1], args[2]>> ELSE <<args[1]>>

\* What createInterceptor works out from the arguments alone:
\* httpInterceptor.ts:51-58, 68
Parsed(args, isHttps) ==
    LET options == args[1]
        url == parseUrl(options, isHttps)
    IN [url |-> url,
        method |-> IF options.type = "object" /\ options.method # ""
                   THEN options.method ELSE "GET",
        headers |-> IF options.type = "object" THEN options.headers ELSE <<>>,
        callback |-> IF Len(args) >= 2 THEN args[2] ELSE Undefined,
        isProvider |-> isProviderRequest(url),
        provider |-> extractProvider(url)]

\* The call record after http(s).request(args) by owner o, where
\* parsed = Parsed(args, isHttps): httpInterceptor.ts:51-84.  A call to a
\* provider is wrapped (state "open"), any other goes to the original
\* function (state "passed").
Intercepted(o, args, parsed) ==
    IF ~parsed.isProvider
    THEN [state |-> "passed", owner |-> o, requestId |-> undefined,
          provider |-> "", startTime |-> 0,
          args |-> args, forwarded |-> PassedOn(args)]
    ELSE [state |-> "open", owner |-> o, requestId |-> IssuedRequestId,
          provider |-> parsed.provider, startTime |-> now,
          args |-> args, forwarded |-> <<args[1], Function("wrapper")>>,
          url |-> parsed.url, method |-> parsed.method,
          headers |-> parsed.headers, callback |-> parsed.callback,
          body |-> <<>>, written |-> <<>>, ended |-> FALSE,
          responded |-> FALSE, cb |-> "none", res |-> <<>>,
          received |-> <<>>]

\* http(s).request(args), parsed as `parsed`, issued by the handler of
\* request o (after its preHandler, before its reply is sent) or by
\* untracked code (o = 0)
Request(o, args, parsed) ==
    /\ o # 0 => pc[o].at = "routed"
    /\ \E c \in 1..MaxCalls : calls[c].state = "free"
    /\ calls' = [calls EXCEPT ![FreeCall] = Intercepted(o, args, parsed)]
    /\ UNCHANGED <<last, logs, file, REQUEST_LOG, now, currentRequestId, pc>>

\* req.write(chunk) on call c, httpInterceptor.ts:91-96
ReqWrite(c, chunk) ==
    /\ calls[c].state = "open"
    /\ Len(calls[c].written) < MaxChunks
    /\ calls' = [calls EXCEPT ![c].body = @ \o ChunkToString(chunk),
                              ![c].written = Append(@, chunk)]
    /\ UNCHANGED <<last, logs, file, REQUEST_LOG, now, currentRequestId, pc>>

\* req.end reading the armed id anew instead of the one stored at issue
EndRequestIdLive(c) == getCurrentRequestId

\* The id req.end logs under: httpInterceptor.ts:105-109
EndRequestId(c) == calls[c].requestId

\* The map after the logging of req.end, httpInterceptor.ts:104-119, for
\* call c with accumulated body text: an exception of JSON.parse is caught
EndLogs(c, text) ==
    IF ~Truthy(EndRequestId(c)) THEN logs
    ELSE IF text = <<>>
    THEN logTransformedRequest(EndRequestId(c), calls[c].url, calls[c].method,
             calls[c].headers, NullBody, calls[c].provider, c)
    ELSE IF JsonValid(text)
    THEN logTransformedRequest(EndRequestId(c), calls[c].url, calls[c].method,
             calls[c].headers, JsonParse(text), calls[c].provider, c)
    ELSE logs

\* req.end(chunk) on call c, httpInterceptor.ts:98-122
ReqEnd(c, chunk) ==
    /\ calls[c].state = "open"
    /\ chunk # <<>> => Len(calls[c].written) < MaxChunks
    /\ logs' = EndLogs(c, calls[c].body \o ChunkToString(chunk))
    /\ calls' = [calls EXCEPT ![c].body = @ \o ChunkToString(chunk),
                              ![c].written = Append(@, chunk),
                              ![c].ended = TRUE,
                              ![c].state = "sent"]
    /\ UNCHANGED <<last, file, REQUEST_LOG, now, currentRequestId, pc>>

\* The call record after the 'response' event: handleResponse has put its
\* listeners on res and the caller's callback was called,
\* httpInterceptor.ts:77-80
Responded(call) ==
    [call EXCEPT !.responded = TRUE,
                 !.cb = IF call.callback.type = "function" THEN "ran"
                        ELSE IF call.callback.type = "undefined" THEN "none"
                        ELSE "threw"]

\* The 'end' handler of the response reading the armed id anew instead of
\* the one stored at issue
ResponseRequestIdLive(c) == getCurrentRequestId

\* The id the 'end' handler of the response logs under:
\* httpInterceptor.ts:136-140
ResponseRequestId(c) == calls[c].requestId

\* The map after the 'end' handler of the response of call c, whose body
\* text is text: httpInterceptor.ts:135-150
ResponseEndLogs(c, text) ==
    IF ~Truthy(ResponseRequestId(c)) THEN logs
    ELSE IF text = <<>>
    THEN logProviderResponse(ResponseRequestId(c), 200, ReplyHeaders,
             NullBody, calls[c].startTime, c)
    ELSE IF JsonValid(text)
    THEN logProviderResponse(ResponseRequestId(c), 200, ReplyHeaders,
             JsonParse(text), calls[c].startTime, c)
    ELSE logs

\* 'response' event of call c
OnResponse(c) ==
    /\ calls[c].state = "sent"
    /\ ~calls[c].responded
    /\ calls' = [calls EXCEPT ![c] = Responded(@)]
    /\ UNCHANGED <<last, logs, file, REQUEST_LOG, now, currentRequestId, pc>>

\* 'data' event of the response of call c, httpInterceptor.ts:131-133
OnData(c, chunk) ==
    /\ calls[c].state = "sent"
    /\ calls[c].responded
    /\ Len(calls[c].received) < MaxChunks
    /\ calls' = [calls EXCEPT ![c].res = @ \o ChunkToString(chunk),
                              ![c].received = Append(@, chunk)]
    /\ UNCHANGED <<last, logs, file, REQUEST_LOG, now, currentRequestId, pc>>

\* 'end' event of the response of call c, httpInterceptor.ts:135-150
OnEnd(c) ==
    /\ calls[c].state = "sent"
    /\ calls[c].responded
    /\ logs' = ResponseEndLogs(c, calls[c].res)
    /\ calls' = [calls EXCEPT ![c].state = "done"]
    /\ UNCHANGED <<last, file, REQUEST_LOG, now, currentRequestId, pc>>

----------------------------------------------------------------------------
(* Spec: inbound requests served by the hooks of run(), part_002:124-176,  *)
(* and the outbound calls they cause.  The clock stands still in Spec:     *)
(* arrival order alone decides the order of the timestamps there;          *)
(* StoreSpec varies them.  Every outbound call of Spec goes to a           *)
(* recognized provider, sends its JSON body with req.end and gets a JSON   *)
(* response in one piece, and every append to the file succeeds; CallSpec  *)
(* and StoreSpec vary all of that.                                         *)

Requests == 1..NumRequests

\* owner 0: code running outside any tracked inbound request (a health
\* check, a timer)
Owners == 0..NumRequests

\* https.request({hostname: 'api.anthropic.com', path: '/v1/messages',
\* method: 'POST', headers}, callback)
ProviderArgs ==
    <<Options(<<"api.anthropic.com">>, <<>>, <<>>, <<"/", "v1/messages">>),
      Function("callback")>>

\* What createInterceptor of https.request works out from them
ProviderCall == Parsed(ProviderArgs, TRUE)

ProviderUrl == ProviderCall.url

\* extractProvider on ProviderUrl
ProviderName == ProviderCall.provider

\* The bytes of a JSON body
JsonText == <<"{", "}">>

\* The inbound request arrives and its record is created.  req.requestId is
\* set, and requestLogger.logRequest called, before the preHandler hook
\* reads it; the caller is outside the sources at hand.  Requests are
\* numbered in the order they arrive.
Create(r) ==
    /\ pc[r].at = "idle"
    /\ \A q \in 1..(r - 1) : pc[q].at # "idle"
    /\ logs' = logRequest(RequestIds[r], InboundReq("x"))
    /\ pc' = [pc EXCEPT ![r].at = "created"]
    /\ UNCHANGED <<last, file, REQUEST_LOG, now, currentRequestId, calls>>

\* preHandler hook, part_002:124-137: startTime is taken, the id armed and
\* router(req, reply, config) called, which reports its routing decision
\* (router itself is outside the sources at hand)
PreHandler(r) ==
    /\ pc[r].at = "created"
    /\ currentRequestId' = setCurrentRequestId(RequestIds[r])
    /\ logs' = logRouting(RequestIds[r], 42, "claude-3", "default")
    /\ pc' = [pc EXCEPT ![r] = [at |-> "routed", startTime |-> now,
                                threw |-> FALSE]]
    /\ UNCHANGED <<last, file, REQUEST_LOG, now, calls>>

\* A call to the provider is issued
Issue(o) == Request(o, ProviderArgs, ProviderCall)

\* The body is sent with req.end
End(c) == ReqEnd(c, JsonText)

\* The provider's response to call c arrives and is read to its end; the
\* events in between change nothing but the call's own record
ResponseEnd(c) ==
    /\ calls[c].state = "sent"
    /\ logs' = ResponseEndLogs(c, ChunkToString(JsonText))
    /\ calls' = [calls EXCEPT ![c] =
                    [Responded(@) EXCEPT !.res = ChunkToString(JsonText),
                                         !.received = <<JsonText>>,
                                         !.state = "done"]]
    /\ UNCHANGED <<last, file, REQUEST_LOG, now, currentRequestId, pc>>

\* The handling of request r throws before a reply was made (in the router
\* or in the route handler, both outside the sources at hand); the server
\* answers with an error reply, which takes the onSend hook as every reply
\* does
Fail(r) ==
    /\ pc[r].at = "routed"
    /\ ~pc[r].threw
    /\ pc' = [pc EXCEPT ![r].threw = TRUE]
    /\ UNCHANGED <<last, logs, file, REQUEST_LOG, now, currentRequestId, calls>>

\* reply.statusCode as the onSend hook reads it
StatusCode(r) == IF pc[r].threw THEN 500 ELSE 200

\* onSend hook up to its await, part_002:140-165: the final response is
\* logged and persisted
OnSend(r, ioOk) ==
    /\ pc[r].at = "routed"
    /\ logs' = logResponse(RequestIds[r], StatusCode(r), ReplyHeaders,
                           ObjectBody(11, "r"), pc[r].startTime)
    /\ file' = fileAfter(logs', RequestIds[r], ioOk)
    /\ pc' = [pc EXCEPT ![r].at = "sent"]
    /\ UNCHANGED <<last, REQUEST_LOG, now, currentRequestId, calls>>

\* onSend hook after the await, part_002:165-166: the context is cleared
OnSendClear(r) ==
    /\ pc[r].at = "sent"
    /\ currentRequestId' = clearCurrentRequestId
    /\ pc' = [pc EXCEPT ![r].at = "done"]
    /\ UNCHANGED <<last, logs, file, REQUEST_LOG, now, calls>>

Init == InitCommon /\ REQUEST_LOG = "true"

Next ==
    \/ \E r \in Requests : Create(r)
    \/ \E r \in Requests : PreHandler(r)
    \/ \E o \in Owners : Issue(o)
    \/ \E c \in 1..MaxCalls : End(c)
    \/ \E c \in 1..MaxCalls : ResponseEnd(c)
    \/ \E r \in Requests : OnSend(r, TRUE)
    \/ \E r \in Requests : OnSendClear(r)

Spec == Init /\ [][Next]_vars

----------------------------------------------------------------------------
(* CallSpec: one inbound request and one outbound call, with every form of *)
(* the arguments of http(s).request and every split of the body texts;     *)
(* the handling of the inbound request may throw                           *)

\* Calls whose destination is no provider: a host outside the allow-list
\* (also with an allow-list entry in the path), and a text that is no URL
OtherHostArgs ==
    {<<Options(<<"example.com">>, <<>>, <<>>, <<"/">>)>>,
     <<Options(<<>>, <<"example.com">>, <<"8080">>, <<"/", "api.openai.com">>),
       Function("callback")>>,
     <<UrlString(<<"https:", "//", "example.com", "/">>),
       Options(<<>>, <<>>, <<>>, <<>>), Function("callback")>>,
     <<UrlString(<<"example.com">>), Function("callback")>>}

\* Calls to a provider
ProviderHostArgs ==
    {ProviderArgs,
     <<Options(<<"API.ANTHROPIC.COM">>, <<>>, <<>>, <<>>)>>,
     <<UrlString(<<"https:", "//", "user", "@", "openrouter.ai", ":", "443",
                   "/", "v1">>),
       Function("callback")>>}

\* Chunks given to write and end and delivered by 'data': "{", "}", "1",
\* and the two halves of the JSON string of the one character "e-acute",
\* cut between the two bytes of that character
Chunks == {<<"{">>, <<"}">>, <<"1">>, <<"quote", "C3">>, <<"A9", "quote">>}

CallNext ==
    \/ Create(1)
    \/ PreHandler(1)
    \/ \E o \in {0, 1} : \E args \in OtherHostArgs \cup ProviderHostArgs :
         \E isHttps \in BOOLEAN :
            calls[1].state = "free" /\ Request(o, args, Parsed(args, isHttps))
    \/ \E chunk \in Chunks : ReqWrite(1, chunk)
    \/ \E chunk \in Chunks \cup {<<>>} : ReqEnd(1, chunk)
    \/ OnResponse(1)
    \/ \E chunk \in Chunks : OnData(1, chunk)
    \/ OnEnd(1)
    \/ Fail(1)
    \/ \E ioOk \in IoOutcomes(RequestIds[1]) : OnSend(1, ioOk)
    \/ OnSendClear(1)

CallSpec == Init /\ [][CallNext]_vars

----------------------------------------------------------------------------
(* UrlSpec: isProviderRequest and extractProvider on the destination of a  *)
(* call, for destinations put together from every kind of part             *)

\* Longest host name, in atoms
MaxHost == 2

\* Pieces of a host name: the entries of the allow-list, one of them in
\* upper case, and pieces that are no entry
HostAtoms == providerDomains \cup {"API.ANTHROPIC.COM", "example.com", "x."}

Hosts == UNION {[1..n -> HostAtoms] : n \in 1..MaxHost}

\* The parts of a destination; an absent part is the empty text
UrlParts ==
    [scheme : {<<>>, <<"http:", "//">>, <<"https:", "//">>},
     userinfo : {<<>>, <<"api.openai.com", "@">>},
     host : Hosts,
     port : {<<>>, <<"443">>, <<"api.openai.com">>},
     path : {<<>>, <<"/">>, <<"/", "api.openai.com">>},
     query : {<<>>, <<"?", "api.openai.com">>}]

\* The destination as a URL string
UrlText(p) ==
    p.scheme \o p.userinfo \o p.host
        \o (IF p.port # <<>> THEN <<":">> \o p.port ELSE <<>>)
        \o p.path \o p.query

\* The destination as the options of http(s).request, its host given as
\* options.hostname or as options.host
AsOptions(p, viaHost) ==
    Options(IF viaHost THEN <<>> ELSE p.host, IF viaHost THEN p.host ELSE <<>>,
            p.port, p.path \o p.query)

\* http(s).request to the destination of parts p is classified:
\* httpInterceptor.ts:53-58, 68.  The classification keeps no state: one
\* call from the initial state stands for any call.
Classify(p, asObject, viaHost) ==
    /\ last.op = "init"
    /\ asObject => (p.scheme # <<>> /\ p.userinfo = <<>>)
    /\ ~asObject => ~viaHost
    /\ LET arg == IF asObject THEN AsOptions(p, viaHost)
                  ELSE UrlString(UrlText(p))
           parsed == Parsed(<<arg>>, p.scheme = <<"https:", "//">>)
       IN last' = [op |-> "classify", id |-> undefined, n |-> 0,
                   evicted |-> {}, parts |-> p, asObject |-> asObject,
                   isProvider |-> parsed.isProvider,
                   provider |-> parsed.provider]
    /\ UNCHANGED <<logs, file, REQUEST_LOG, now, currentRequestId, pc, calls>>

UrlNext ==
    /\ last.op = "init"
    /\ \E p \in UrlParts : \E asObject \in BOOLEAN : \E viaHost \in BOOLEAN :
            Classify(p, asObject, viaHost)

UrlSpec == QueryInit /\ [][UrlNext]_vars

----------------------------------------------------------------------------
(* Properties *)

Range(seq) == {seq[i] : i \in 1..Len(seq)}

\* The last step was a call of a requestLogger method (StoreSpec)
Called(ops) == last'.n = last.n + 1 /\ last'.op \in ops

StageOps ==
    {"logRouting", "logTransformedRequest", "logProviderResponse",
     "logResponse", "logError"}

\* The inbound request whose handler issued call c
OwnerId(c) == RequestIds[calls[c].owner]

\* A stage of an entry captured from a call of a tracked inbound request
\* belongs to the entry of that request
OwnStage(e, stage) ==
    (stage.set /\ stage.src # 0 /\ calls[stage.src].owner # 0)
        => OwnerId(stage.src) = e.id

\* C1: no cross-attribution.  The transformedRequest and providerResponse
\* stored in a record were captured from an outbound call issued by the
\* inbound request the record belongs to, never from the call of another
\* inbound request.
C1_NoCrossAttribution ==
    \A i \in 1..Len(logs) :
        /\ OwnStage(logs[i], logs[i].transformedRequest)
        /\ OwnStage(logs[i], logs[i].providerResponse)

\* C2: attribution is never lost.  An outbound call issued by inbound
\* request A between A's arm and A's clear carries A's id, and once it is
\* finalized A's record (while retained) has a transformedRequest.
C2_AttributionNeverLost ==
    \A c \in 1..MaxCalls :
        (calls[c].state # "free" /\ calls[c].owner # 0) =>
            /\ calls[c].requestId = OwnerId(c)
            /\ (calls[c].state \in {"sent", "done"} /\ Has(OwnerId(c)))
                  => getLogById(OwnerId(c)).transformedRequest.set

\* C3: the Record Store never holds more than maxLogs records.
C3_StoreBounded == Len(logs) <= maxLogs

\* C3 witness: a logRequest has evicted an entry and left the store full
C3_Witness ==
    /\ last.op = "logRequest"
    /\ last.evicted # {}
    /\ Len(logs) = maxLogs

\* C4: when logRequest of a new id finds the store full, exactly one record
\* leaves the store, none in the store before the call or created by it
\* has a smaller timestamp than that one, and every other record stays as
\* it was.
C4_EvictsOldest ==
    [][(/\ Called({"logRequest"})
        /\ REQUEST_LOG # "false"
        /\ Len(logs) = maxLogs
        /\ last'.id \notin Ids(logs))
       => \E v \in Ids(logs) \cup {last'.id} :
            LET ts(id) == IF id \in Ids(logs) THEN getLogById(id).timestamp
                          ELSE now
            IN /\ Ids(logs') = (Ids(logs) \cup {last'.id}) \ {v}
               /\ \A w \in Ids(logs) \cup {last'.id} : ts(v) <= ts(w)
               /\ \A e \in Range(logs) : e.id # v => e \in Range(logs')
      ]_vars

\* C4 witness: a logRequest has evicted a record that was completed and
\* persisted
C4_Witness ==
    /\ last.op = "logRequest"
    /\ \E i \in 1..Len(file) : file[i].id \in last.evicted

\* C5: persistence happens once per record.  A logResponse or logError on
\* a record that already has its response or its error stage appends
\* nothing to the file.
C5_PersistedOnce ==
    [][(/\ Called({"logResponse", "logError"})
        /\ Has(last'.id)
        /\ (getLogById(last'.id).response.set
              \/ getLogById(last'.id).error.set))
       => file' = file]_vars

\* C6: no record has both its response and its error stage.
C6_ResponseErrorExclusive ==
    \A i \in 1..Len(logs) : ~(logs[i].response.set /\ logs[i].error.set)

\* C7: a stage write on an id the store does not hold changes no record,
\* creates none and appends nothing to the file.
C7_UnknownIdNoOp ==
    [][(Called(StageOps) /\ last'.id \notin Ids(logs))
       => (logs' = logs /\ file' = file)]_vars

\* C7 witness: a stage write was made on an id that is not in the store
\* while the store is full, after an entry was completed and persisted
C7_Witness ==
    /\ last.op \in StageOps
    /\ last.id \notin Ids(logs)
    /\ Len(logs) = maxLogs
    /\ file # <<>>

\* C8: logRequest of an id the store already holds leaves that record as
\* it was.
C8_DuplicateCreateIgnored ==
    [][(Called({"logRequest"}) /\ Has(last'.id))
       => getLogById(last'.id) \in Range(logs')]_vars

\* transformedRequest and providerResponse of entry e are both absent or
\* both captured from the same outbound call
PairedStages(e) ==
    /\ e.transformedRequest.set = e.providerResponse.set
    /\ e.transformedRequest.set
         => e.transformedRequest.src = e.providerResponse.src

\* C9: in every record, in the store or persisted, transformedRequest and
\* providerResponse are both present or both absent and, when present,
\* come from the same outbound call.
C9_StagesSetTogether ==
    /\ \A i \in 1..Len(logs) : PairedStages(logs[i])
    /\ \A i \in 1..Len(file) : PairedStages(file[i])

\* C10: an outbound call issued while no id was armed changes no record
\* and no line of the file, neither when its request is finalized nor when
\* its response ends, whatever is armed by then.
C10_DroppedCapture ==
    [][\A c \in 1..MaxCalls :
        (/\ calls[c].state \in {"open", "sent"}
         /\ calls[c].requestId = undefined
         /\ calls'[c].state # calls[c].state)
        => (logs' = logs /\ file' = file)]_vars

\* C10 witness: a call issued with no id armed has been finalized and is
\* in flight while an id is armed whose record is in the store
C10_Witness ==
    \E c \in 1..MaxCalls :
        /\ calls[c].state = "sent"
        /\ calls[c].requestId = undefined
        /\ Truthy(currentRequestId)
        /\ Has(currentRequestId)

\* C11: an outbound call whose destination matches no entry of the
\* allow-list is handed to the original request function with the
\* arguments it was made with, options and callback, and changes no record
\* and no line of the file, whether or not an id is armed.
C11_PassThrough ==
    [][\A c \in 1..MaxCalls :
        (/\ calls[c].state = "free"
         /\ calls'[c].state # "free"
         /\ calls'[c].args \in OtherHostArgs)
        => /\ calls'[c].state = "passed"
           /\ calls'[c].forwarded = calls'[c].args
           /\ logs' = logs
           /\ file' = file]_vars

\* The text as the body of a stage
RawBody(text) == StringBody(Len(text), text)

\* C19: when the body text of a captured call, or of its response, is not
\* valid JSON, the stage is written all the same with the raw text as its
\* body, and the call goes on: the original end was called and the
\* caller's callback ran.
C19_RawBodyFallback ==
    \A c \in 1..MaxCalls :
        (/\ calls[c].state \in {"sent", "done"}
         /\ Truthy(calls[c].requestId)
         /\ Has(calls[c].requestId))
        => LET e == getLogById(calls[c].requestId)
           IN /\ (calls[c].body # <<>> /\ ~JsonValid(calls[c].body))
                   => /\ calls[c].ended
                      /\ e.transformedRequest.set
                      /\ e.transformedRequest.body = RawBody(calls[c].body)
              /\ (/\ calls[c].state = "done"
                  /\ calls[c].res # <<>>
                  /\ ~JsonValid(calls[c].res))
                   => /\ calls[c].cb # "threw"
                      /\ e.providerResponse.set
                      /\ e.providerResponse.body = RawBody(calls[c].res)

\* The entry has its response or its error stage
Completed(e) == e.response.set \/ e.error.set

\* The entry of id in map
EntryOf(map, id) == map[CHOOSE i \in 1..Len(map) : map[i].id = id]

\* How many entries of map cleanup() deletes before it deletes the entry of
\* id, that one included
Rank(map, id) ==
    CHOOSE i \in 1..Len(map) : SortByTimestamp(map)[i].id = id

\* C12: a record is appended to the file only by a logResponse or logError
\* on it, as it is after that call.  A record that has neither stage is
\* never in the file, also not when it is evicted, stays without them
\* under every other call, and moves one place closer to eviction with
\* every record created into the full store, leaving it when it is first.
C12_PersistOnlyOnCompletion ==
    [][/\ file' # file =>
            /\ Called({"logResponse", "logError"})
            /\ Has(last'.id)
            /\ file' = Append(file, EntryOf(logs', last'.id))
       /\ \A i \in 1..Len(file') : Completed(file'[i])
       /\ \A e \in Range(logs) :
            (/\ ~Completed(e)
             /\ e.id \in Ids(logs')
             /\ ~(Called({"logResponse", "logError"}) /\ last'.id = e.id))
            => ~Completed(EntryOf(logs', e.id))
       /\ (/\ Called({"logRequest"})
           /\ REQUEST_LOG # "false"
           /\ last'.id \notin Ids(logs)
           /\ Len(logs) = maxLogs)
          => \A e \in Range(logs) :
                IF Rank(logs, e.id) = 1
                THEN e.id \notin Ids(logs')
                ELSE /\ e.id \in Ids(logs')
                     /\ Rank(logs', e.id) = Rank(logs, e.id) - 1
      ]_vars

\* C12 witness: a logRequest has evicted a record that never got a
\* response or an error, and the file holds lines of other records only
C12_Witness ==
    /\ last.op = "logRequest"
    /\ last.evicted # {}
    /\ file # <<>>
    /\ \A i \in 1..Len(file) : file[i].id \notin last.evicted

Min(a, b) == IF a < b THEN a ELSE b

\* C13: GET /api/logs answers, whatever the store holds and whatever limit
\* reaches getRecentLogs, with records in the order of non-increasing
\* timestamps, at most limit of them (none for a limit below one), namely
\* the min(limit, size) most recent of the store, and leaves the store as
\* it is.
C13_GetRecent ==
    [][(last'.op = "GET /api/logs" /\ last'.read)
       => LET r == last'.logs
              bound == IF last'.limit < 0 THEN 0 ELSE last'.limit
          IN /\ logs' = logs
             /\ Len(r) = Min(bound, Len(logs))
             /\ \A i \in 1..(Len(r) - 1) : r[i].timestamp >= r[i + 1].timestamp
             /\ Range(r) \subseteq Range(logs)
             /\ Cardinality(Range(r)) = Len(r)
             /\ \A e \in Range(logs) \ Range(r) : \A f \in Range(r) :
                    e.timestamp <= f.timestamp]_vars

\* C14: a call of GET /api/logs or GET /api/logs/:id whose access level is
\* restricted or missing is answered 401 without a call of requestLogger;
\* only a call with an elevated access level reaches the store.
C14_RestrictedRejected ==
    last.op \in {"GET /api/logs", "GET /api/logs/:id"} =>
        /\ last.access \in {undefined, "restricted"}
             => /\ last.status = 401
                /\ last.send = "API key required to access logs"
                /\ last.logs = <<>>
                /\ ~last.read
        /\ last.read => last.access = "full"

\* C14 witness: a call without access level was rejected while the store
\* holds records
C14_Witness ==
    /\ last.op = "GET /api/logs"
    /\ last.access = undefined
    /\ last.status = 401
    /\ logs # <<>>

\* Header keys in lower case
ToLowerCase(k) ==
    CASE k = "Authorization" -> "authorization"
      [] k = "X-API-Key" -> "x-api-key"
      [] OTHER -> k

\* C15: sanitizeHeaders returns the headers it was given with the value of
\* every header whose key is 'authorization' or 'x-api-key' in any case
\* ('Authorization', 'X-API-Key'), whatever that value, replaced by the
\* redaction marker, and every other header as it was.
C15_RedactsAnyCase ==
    last.op = "sanitizeHeaders" =>
        /\ DOMAIN last.output = DOMAIN last.input
        /\ \A k \in DOMAIN last.input :
            last.output[k] =
                IF ToLowerCase(k) \in {"authorization", "x-api-key"}
                THEN REDACTED
                ELSE last.input[k]

\* C16: sanitizeBody returns a string or an object whose text, or whose
\* serialized text, is not longer than BodyLimit as it was given.  For a
\* longer one it returns a string that ends with the truncation marker and
\* is not longer than BodyLimit plus the marker.  For an object that cannot
\* be serialized it returns the unparseable marker.
C16_BodyBounded ==
    last.op = "sanitizeBody" =>
        LET b == last.input
            out == last.output
            sized == b.kind \in {"string", "object"} /\ b.ok
            size == b.keep + b.tail
        IN /\ (sized /\ size <= BodyLimit) => out = b
           /\ (sized /\ size > BodyLimit) =>
                /\ out.kind = "string"
                /\ out.tail >= TruncMarkLen
                /\ out.keep + out.tail <= BodyLimit + TruncMarkLen
           /\ (b.kind = "object" /\ ~b.ok) =>
                out = StringBody(20, "[UNPARSEABLE OBJECT]")

\* C16 witness: an object whose serialized text is over the limit was cut
C16_Witness ==
    /\ last.op = "sanitizeBody"
    /\ last.input.kind = "object"
    /\ last.input.keep > BodyLimit
    /\ last.output.kind = "string"
    /\ last.output.tail = TruncMarkLen

\* C17: sanitizeBody applied to a body it returned returns that body.
C17_Idempotent ==
    (last.op = "sanitizeBody" /\ last.again) => last.output = last.input

\* C17 witness: a truncated body, BodyLimit characters and the marker, was
\* sanitized again
C17_Witness ==
    /\ last.op = "sanitizeBody"
    /\ last.again
    /\ last.input.keep = BodyLimit
    /\ last.input.tail = TruncMarkLen

\* The entry of last'.id after the step has the stage the call writes
StageWritten ==
    /\ last'.op = "logResponse" => EntryOf(logs', last'.id).response.set
    /\ last'.op = "logError" => EntryOf(logs', last'.id).error.set

\* C18: when the append to the file fails in logResponse or logError, the
\* call returns without an error, the stage it wrote stays in the record,
\* every other record stays as it was, and the record can be got by
\* getLogById and is in the answer of getRecentLogs.  A record leaves the
\* store only when a logRequest evicts it.
C18_AppendFailureKeepsStage ==
    [][/\ (/\ Called({"logResponse", "logError"})
           /\ Has(last'.id)
           /\ ~last'.ioOk)
          => /\ ~last'.threw
             /\ file' = file
             /\ Ids(logs') = Ids(logs)
             /\ StageWritten
             /\ \A e \in Range(logs) : e.id # last'.id => e \in Range(logs')
             /\ EntryOf(logs', last'.id) \in Range(Recent(logs', DefaultLimit))
       /\ \A id \in Ids(logs) \ Ids(logs') :
             Called({"logRequest"}) /\ id \in last'.evicted
      ]_vars

\* C18 witness: a logResponse whose append failed: the record has its
\* response and no line of the file is of that record
C18_Witness ==
    /\ last.op = "logResponse"
    /\ Has(last.id)
    /\ ~last.ioOk
    /\ getLogById(last.id).response.set
    /\ \A i \in 1..Len(file) : file[i].id # last.id

\* C20: while REQUEST_LOG is "false", logRequest, logRouting,
\* logTransformedRequest and logProviderResponse leave the store and the
\* file as they are; logResponse and logError on a record of the store
\* still write their stage and append the record to the file; and a change
\* of REQUEST_LOG changes neither the store nor the file.
C20_CaptureSwitch ==
    [][/\ (/\ REQUEST_LOG = "false"
           /\ Called({"logRequest", "logRouting", "logTransformedRequest",
                      "logProviderResponse"}))
          => (logs' = logs /\ file' = file)
       /\ (/\ REQUEST_LOG = "false"
           /\ Called({"logResponse", "logError"})
           /\ Has(last'.id))
          => /\ StageWritten
             /\ last'.ioOk => file' = Append(file, EntryOf(logs', last'.id))
       /\ REQUEST_LOG' # REQUEST_LOG => (logs' = logs /\ file' = file)
      ]_vars

\* C20 witness: with REQUEST_LOG "false", a logResponse has written its
\* stage on a record of the store and the record is in the file
C20_Witness ==
    /\ REQUEST_LOG = "false"
    /\ last.op = "logResponse"
    /\ Has(last.id)
    /\ getLogById(last.id).response.set
    /\ \E i \in 1..Len(file) : file[i] = getLogById(last.id)

\* C21: the success path end to end.  When a single tracked inbound
\* request was created, routed and armed, an outbound call of its handler
\* to api.anthropic.com was finalized and its response read to the end,
\* and then the final response is sent, the file holds exactly one line
\* afterwards: the record of that request as the store holds
\* it, with originalRequest, routing, transformedRequest, providerResponse
\* and response, transformedRequest.provider being "anthropic".
C21_SuccessPath ==
    [][\A r \in Requests :
        (/\ pc[r].at = "routed"
         /\ pc'[r].at = "sent"
         /\ \A q \in Requests \ {r} : pc[q].at = "idle"
         /\ \E c \in 1..MaxCalls :
                calls[c].state = "done" /\ calls[c].owner = r)
        => /\ Len(file') = 1
           /\ file'[1] = EntryOf(logs', RequestIds[r])
           /\ file'[1].originalRequest =
                [headers |-> sanitizeHeaders(InboundReq("x").headers),
                 body |-> InboundReq("x").body]
           /\ file'[1].routing.selectedModel = "claude-3"
           /\ file'[1].transformedRequest.set
           /\ file'[1].transformedRequest.provider = "anthropic"
           /\ file'[1].providerResponse.set
           /\ file'[1].response.set
           /\ ~file'[1].error.set]_vars

\* C21 witness: the only inbound request so far has got its final response
\* after a call of its handler was answered, and its record is in the file
C21_Witness ==
    /\ pc[1].at = "sent"
    /\ \A q \in Requests \ {1} : pc[q].at = "idle"
    /\ \E c \in 1..MaxCalls : calls[c].state = "done" /\ calls[c].owner = 1
    /\ Len(file) = 1
    /\ file[1].id = RequestIds[1]
    /\ file[1].transformedRequest.provider = "anthropic"
    /\ file[1].providerResponse.set
    /\ file[1].response.set

\* C22: the failure path end to end.  A tracked inbound request whose
\* handling threw before a reply was made ends, once its reply went out,
\* with a record that has its error stage and no response stage, and the
\* file holds exactly one line of that record.
C22_FailurePath ==
    \A r \in Requests :
        (/\ pc[r].threw
         /\ pc[r].at \in {"sent", "done"}
         /\ Has(RequestIds[r]))
        => /\ getLogById(RequestIds[r]).error.set
           /\ ~getLogById(RequestIds[r]).response.set
           /\ Cardinality({i \in 1..Len(file) :
                              file[i].id = RequestIds[r]}) = 1

\* The name the spec gives to the provider of an allow-list entry
NameOf(domain) ==
    CASE domain = "api.openai.com" -> "openai"
      [] domain = "openrouter.ai" -> "openrouter"
      [] domain = "api.deepseek.com" -> "deepseek"
      [] domain = "generativelanguage.googleapis.com" -> "gemini"
      [] domain = "api.anthropic.com" -> "anthropic"
      [] domain = "httpbin.org" -> "test"

\* The allow-list entries in the host name of the parts p, in any case
EntriesInHost(p) ==
    {d \in providerDomains : \E i \in 1..Len(p.host) : LowerAtom(p.host[i]) = d}

\* C23: a call is classified as a provider call exactly when its
\* destination is a URL (it has a scheme, its port is a number) and the
\* host name of that URL contains an entry of the allow-list; an entry in
\* the userinfo, the port, the path or the query does not count.  For a
\* call classified so the provider name is the fixed name of an entry the
\* host name contains, never the host name or "unknown".
C23_HostnameDecides ==
    last.op = "classify" =>
        LET p == last.parts
            isUrl == p.scheme # <<>> /\ p.port \in {<<>>, <<"443">>}
        IN /\ last.isProvider <=> (isUrl /\ EntriesInHost(p) # {})
           /\ last.isProvider
                => \E d \in EntriesInHost(p) : last.provider = NameOf(d)

\* C23 witness: a destination with an allow-list entry in its userinfo,
\* its path and its query, and none in its host name, was not classified
\* as a provider call
C23_Witness ==
    /\ last.op = "classify"
    /\ ~last.isProvider
    /\ last.parts.scheme = <<"https:", "//">>
    /\ last.parts.userinfo # <<>>
    /\ last.parts.port = <<"443">>
    /\ last.parts.path = <<"/", "api.openai.com">>
    /\ last.parts.query # <<>>
    /\ EntriesInHost(last.parts) = {}

\* C24: a record that has its response or its error stage is immutable.
\* No stage write (logRouting, logTransformedRequest, logProviderResponse,
\* logResponse, logError) changes such a record while the store holds it.
C24_ImmutableOnceCompleted ==
    [][\A e \in Range(logs) :
        (/\ Called(StageOps)
         /\ Completed(e)
         /\ e.id \in Ids(logs'))
        => EntryOf(logs', e.id) = e]_vars

\* The stage field of entry e that the stage write op assigns
StageOf(e, op) ==
    CASE op = "logRouting" -> e.routing
      [] op = "logTransformedRequest" -> e.transformedRequest
      [] op = "logProviderResponse" -> e.providerResponse
      [] op = "logResponse" -> e.response
      [] op = "logError" -> e.error

\* The stage write op has assigned its stage field of entry e
TookEffect(e, op) ==
    IF op = "logRouting" THEN e.routing.selectedModel = "claude-3"
    ELSE StageOf(e, op).set

\* The stage write of the step, on a record of the store, has left the
\* store with the same keys in the same places, every other record and
\* every field of its own record but its stage field as they were
StageWriteFrame ==
    /\ Len(logs') = Len(logs)
    /\ \A i \in 1..Len(logs) :
        /\ logs'[i].id = logs[i].id
        /\ logs[i].id # last'.id => logs'[i] = logs[i]
        /\ logs'[i].timestamp = logs[i].timestamp
        /\ logs'[i].method = logs[i].method
        /\ logs'[i].url = logs[i].url
        /\ logs'[i].originalRequest = logs[i].originalRequest
        /\ \A op \in StageOps \ {last'.op} :
                StageOf(logs'[i], op) = StageOf(logs[i], op)

\* C25 as stated: every stage write on an id the store holds takes effect,
\* whatever stages the record has, and changes only its own stage field of
\* that one record.
C25_StageWriteTakesEffect ==
    [][(Called(StageOps) /\ Has(last'.id))
       => /\ TookEffect(EntryOf(logs', last'.id), last'.op)
          /\ StageWriteFrame]_vars

\* C25: a stage write on an id the store holds changes at most its own
\* stage field of that one record, keys and places stay as they were, and
\* it takes effect whatever stages the record has: always for logResponse
\* and logError, and for logRouting, logTransformedRequest and
\* logProviderResponse unless REQUEST_LOG is "false".
C25_StageWriteFrame ==
    [][(Called(StageOps) /\ Has(last'.id))
       => /\ (REQUEST_LOG # "false" \/ last'.op \in {"logResponse", "logError"})
                => TookEffect(EntryOf(logs', last'.id), last'.op)
          /\ StageWriteFrame]_vars

\* C25 witness: logTransformedRequest has taken effect on a record that
\* had its response already, and has neither a reported routing nor a
\* providerResponse
C25_Witness ==
    /\ last.op = "logTransformedRequest"
    /\ Has(last.id)
    /\ getLogById(last.id).transformedRequest.set
    /\ getLogById(last.id).response.set
    /\ getLogById(last.id).routing = DefaultRouting
    /\ ~getLogById(last.id).providerResponse.set

\* C26: eviction happens in the logRequest that fills the store beyond
\* maxLogs, and which record goes is determined: among the records with
\* the smallest timestamp, the record created by the call included, the
\* one that is first in the order of insertion.
C26_TieBreakByInsertion ==
    [][(/\ Called({"logRequest"})
        /\ REQUEST_LOG # "false"
        /\ Len(logs) = maxLogs
        /\ last'.id \notin Ids(logs))
       => LET all == Ids(logs) \cup {last'.id}
              ts(id) == IF id \in Ids(logs) THEN getLogById(id).timestamp
                        ELSE now
              pos(id) == IF id \in Ids(logs)
                         THEN CHOOSE i \in 1..Len(logs) : logs[i].id = id
                         ELSE Len(logs) + 1
              v == CHOOSE x \in all : \A y \in all \ {x} :
                        ts(x) < ts(y) \/ (ts(x) = ts(y) /\ pos(x) < pos(y))
          IN /\ last'.evicted = {v}
             /\ Ids(logs') = all \ {v}]_vars

\* C26 witness: a logRequest has evicted a record while all records, the
\* evicted one too, had the same timestamp
C26_Witness ==
    /\ last.op = "logRequest"
    /\ last.evicted # {}
    /\ now = 0
    /\ \A i \in 1..Len(logs) : logs[i].timestamp = 0

\* C29: after a logRequest with REQUEST_LOG not "false" the store holds a
\* record of the id of the call, timestamped now, with the default routing
\* and no transformedRequest, providerResponse, response or error, also
\* when the store was full and a record was evicted.
C29_CreateKeepsNewRecord ==
    [][(Called({"logRequest"}) /\ REQUEST_LOG # "false")
       => /\ last'.id \in Ids(logs')
          /\ last'.id \notin last'.evicted
          /\ LET e == EntryOf(logs', last'.id)
             IN /\ e.timestamp = now
                /\ e.routing =
                     [tokenCount |-> 0, selectedModel |-> "", routingReason |-> ""]
                /\ ~e.transformedRequest.set
                /\ ~e.providerResponse.set
                /\ ~e.response.set
                /\ ~e.error.set]_vars

\* C29 witness: a logRequest into the full store has evicted a record and
\* the record it created is in the store, next to a record of the same
\* timestamp
C29_Witness ==
    /\ last.op = "logRequest"
    /\ last.evicted # {}
    /\ Len(logs) = maxLogs
    /\ Has(last.id)
    /\ ~Completed(getLogById(last.id))
    /\ \E i \in 1..Len(logs) :
            /\ logs[i].id # last.id
            /\ logs[i].timestamp = getLogById(last.id).timestamp

\* The bytes of the chunks, in order
RECURSIVE Concat(_)
Concat(chunks) ==
    IF chunks = <<>> THEN <<>> ELSE Head(chunks) \o Concat(Tail(chunks))

\* The text the chunks make up: their bytes, in order, decoded together
TextOf(chunks) == ChunkToString(Concat(chunks))

\* C27: the captured bodies do not depend on the chunking.  For a call
\* issued with an armed id whose record is in the store, transformedRequest
\* is absent until req.end and is then written with the body that is the
\* text of all chunks given to write and end, in order; providerResponse
\* is absent until the end of the response, also after data chunks, and is
\* then written with the body that is the text of all chunks of the
\* response, in order (stated for texts that are valid JSON).
C27_ChunkingIndependent ==
    \A c \in 1..MaxCalls :
        (/\ calls[c].state \in {"open", "sent", "done"}
         /\ Truthy(calls[c].requestId)
         /\ Has(calls[c].requestId))
        => LET e == getLogById(calls[c].requestId)
               sent == TextOf(calls[c].written)
               got == TextOf(calls[c].received)
           IN /\ calls[c].state = "open" => ~e.transformedRequest.set
              /\ (calls[c].state \in {"sent", "done"} /\ JsonValid(sent))
                    => /\ e.transformedRequest.set
                       /\ e.transformedRequest.body = sanitizeBody(JsonParse(sent))
              /\ calls[c].state \in {"open", "sent"} => ~e.providerResponse.set
              /\ (calls[c].state = "done" /\ JsonValid(got))
                    => /\ e.providerResponse.set
                       /\ e.providerResponse.body = sanitizeBody(JsonParse(got))

\* C28: the id of an outbound call is the one stored when it was issued.
\* The finalization of its request and the end of its response leave that
\* id as it is, write their stage, transformedRequest and providerResponse,
\* into the record of that id when the store holds it, and leave every
\* other record as it was, whatever id is armed at that time.
C28_SnapshotId ==
    [][\A c \in 1..MaxCalls :
        (/\ calls[c].state \in {"open", "sent"}
         /\ calls'[c].state # calls[c].state)
        => /\ calls'[c].requestId = calls[c].requestId
           /\ Len(logs') = Len(logs)
           /\ \A i \in 1..Len(logs) :
                logs[i].id # calls[c].requestId => logs'[i] = logs[i]
           /\ (Truthy(calls[c].requestId) /\ Has(calls[c].requestId))
                => LET e == EntryOf(logs', calls[c].requestId)
                   IN IF calls[c].state = "open"
                      THEN /\ e.transformedRequest.set
                           /\ e.transformedRequest.src = c
                      ELSE /\ e.providerResponse.set
                           /\ e.providerResponse.src = c]_vars

\* C28 witness: both stages of a call are in the record of the id it was
\* issued under, whose request is still being handled, while another id
\* is armed
C28_Witness ==
    \E c \in 1..MaxCalls : \E r \in Requests :
        /\ calls[c].state = "done"
        /\ calls[c].requestId = RequestIds[r]
        /\ pc[r].at = "routed"
        /\ Truthy(currentRequestId)
        /\ currentRequestId # RequestIds[r]
        /\ Has(RequestIds[r])
        /\ getLogById(RequestIds[r]).transformedRequest.set
        /\ getLogById(RequestIds[r]).transformedRequest.src = c
        /\ getLogById(RequestIds[r]).providerResponse.set
        /\ getLogById(RequestIds[r]).providerResponse.src = c

====
